---- MODULE Spec2Model ----
(***************************************************************************)
(* Model of src/input/event/native.rs of InputPlumber: the NativeEvent     *)
(* type, its constructors and accessors, and the translation of a raw      *)
(* evdev reading into a NativeEvent (from_evdev_raw, From<EvdevEvent>),    *)
(* including the decoding of hat-switch (d-pad) axes.                      *)
(*                                                                         *)
(* Option<T> is modelled as a set with at most one element: None is {}     *)
(* and Some(x) is {x}.                                                     *)
(***************************************************************************)
EXTENDS Integers, FiniteSets, Sequences, TLC

\* ---------------------------------------------------------------- bounds
\* Raw i32 values of a reading and of a hat state range over -MaxRaw..MaxRaw.
MaxRaw == 2
\* Axis codes range from MaxCodeDist below ABS_HAT0X to MaxCodeDist above
\* ABS_HAT0Y.
MaxCodeDist == 1

\* ------------------------------------------------------------- constants
\* evdev::AbsoluteAxisCode::ABS_HAT0X and ABS_HAT0Y (linux input codes).
ABS_HAT0X == 16
ABS_HAT0Y == 17

None == {}
Some(x) == {x}
Unwrap(o) == CHOOSE x \in o : TRUE

\* Capability::Gamepad(Gamepad::Button(GamepadButton::DPad*)),
\* Capability::NotImplemented, and one capability that is none of these.
DPadLeft == "DPadLeft"
DPadRight == "DPadRight"
DPadUp == "DPadUp"
DPadDown == "DPadDown"
NotImplemented == "NotImplemented"
OtherCapability == "OtherCapability"
Capability ==
  {DPadLeft, DPadRight, DPadUp, DPadDown, NotImplemented, OtherCapability}

\* InputValue, the normalized payload of an event.
InputValue == {"Bool(false)", "Bool(true)"}

RawValues == (0 - MaxRaw)..MaxRaw
Codes == (ABS_HAT0X - MaxCodeDist)..(ABS_HAT0Y + MaxCodeDist)
HatAxes == {ABS_HAT0X, ABS_HAT0Y}
HatStates == {None} \cup {Some(s) : s \in RawValues}

\* EvdevEvent: one raw reading.  code and value are those of its input
\* event; capability and input_value are what the reading's own
\* as_capability() and get_value() return.
EvdevEvent ==
  [code : Codes, value : RawValues, capability : Capability,
   input_value : InputValue]

\* EvdevEvent::as_capability, the reading's self-classification.
Evdev_as_capability(ev) == ev.capability
\* EvdevEvent::get_value, the reading's normalized value.
Evdev_get_value(ev) == ev.input_value

VARIABLES
  event,    \* the NativeEvent under consideration
  op,       \* the last operation applied
  args,     \* the arguments of that operation
  ctor,     \* the event as it was when it was constructed
  tracker,  \* the caller's hat state per hat axis (Option<i32>)
  prev,     \* per hat axis, the caller's previous translation on that axis
  pc        \* position of the caller: "idle" or "update"

vars == <<event, op, args, ctor, tracker, prev, pc>>

\* -------------------------------------------------------------- NativeEvent
new(capability, value) ==
  [capability |-> capability, value |-> value, source_capability |-> None]

\* Variant: source and destination capability exchanged.
new_translated_exchanged(source_capability, capability, value) ==
  [capability |-> source_capability, source_capability |-> Some(capability),
   value |-> value]

new_translated(source_capability, capability, value) ==
  [capability |-> capability, source_capability |-> Some(source_capability),
   value |-> value]

as_capability(e) == e.capability

get_value(e) == e.value

is_translated(e) == e.source_capability # None

\* Variant: the capability itself is overwritten as well.
set_source_capability_overwrites(e, cap) ==
  [e EXCEPT !.source_capability = Some(cap), !.capability = cap]

set_source_capability(e, cap) == [e EXCEPT !.source_capability = Some(cap)]

get_source_capability(e) == e.source_capability

\* Variant: the two press arms of ABS_HAT0X exchanged.
hat_capability_press_swapped(axis, value, old_state) ==
  CASE axis = ABS_HAT0X ->
         (CASE value = -1 -> DPadRight
            [] value = 1 -> DPadLeft
            [] value = 0 ->
                 (CASE old_state = -1 -> DPadLeft
                    [] old_state = 1 -> DPadRight
                    [] OTHER -> NotImplemented)
            [] OTHER -> NotImplemented)
    [] axis = ABS_HAT0Y ->
         (CASE value = -1 -> DPadUp
            [] value = 1 -> DPadDown
            [] value = 0 ->
                 (CASE old_state = -1 -> DPadUp
                    [] old_state = 1 -> DPadDown
                    [] OTHER -> NotImplemented)
            [] OTHER -> NotImplemented)
    [] OTHER -> NotImplemented

\* Variant: the two release arms of ABS_HAT0Y exchanged.
hat_capability_release_swapped(axis, value, old_state) ==
  CASE axis = ABS_HAT0X ->
         (CASE value = -1 -> DPadLeft
            [] value = 1 -> DPadRight
            [] value = 0 ->
                 (CASE old_state = -1 -> DPadLeft
                    [] old_state = 1 -> DPadRight
                    [] OTHER -> NotImplemented)
            [] OTHER -> NotImplemented)
    [] axis = ABS_HAT0Y ->
         (CASE value = -1 -> DPadUp
            [] value = 1 -> DPadDown
            [] value = 0 ->
                 (CASE old_state = -1 -> DPadDown
                    [] old_state = 1 -> DPadUp
                    [] OTHER -> NotImplemented)
            [] OTHER -> NotImplemented)
    [] OTHER -> NotImplemented

\* Variant: a release with any old state other than -1 is the positive
\* button.
hat_capability_release_default(axis, value, old_state) ==
  CASE axis = ABS_HAT0X ->
         (CASE value = -1 -> DPadLeft
            [] value = 1 -> DPadRight
            [] value = 0 ->
                 (CASE old_state = -1 -> DPadLeft
                    [] old_state = 1 -> DPadRight
                    [] OTHER -> DPadRight)
            [] OTHER -> NotImplemented)
    [] axis = ABS_HAT0Y ->
         (CASE value = -1 -> DPadUp
            [] value = 1 -> DPadDown
            [] value = 0 ->
                 (CASE old_state = -1 -> DPadUp
                    [] old_state = 1 -> DPadDown
                    [] OTHER -> DPadDown)
            [] OTHER -> NotImplemented)
    [] OTHER -> NotImplemented

\* Variant: the value is matched by its sign, not against -1 and 1.
hat_capability_by_sign(axis, value, old_state) ==
  CASE axis = ABS_HAT0X ->
         (CASE value < 0 -> DPadLeft
            [] value > 0 -> DPadRight
            [] value = 0 ->
                 (CASE old_state = -1 -> DPadLeft
                    [] old_state = 1 -> DPadRight
                    [] OTHER -> NotImplemented)
            [] OTHER -> NotImplemented)
    [] axis = ABS_HAT0Y ->
         (CASE value < 0 -> DPadUp
            [] value > 0 -> DPadDown
            [] value = 0 ->
                 (CASE old_state = -1 -> DPadUp
                    [] old_state = 1 -> DPadDown
                    [] OTHER -> NotImplemented)
            [] OTHER -> NotImplemented)
    [] OTHER -> NotImplemented

\* Variant: every axis other than ABS_HAT0X is taken for ABS_HAT0Y.
hat_capability_two_axes(axis, value, old_state) ==
  CASE axis = ABS_HAT0X ->
         (CASE value = -1 -> DPadLeft
            [] value = 1 -> DPadRight
            [] value = 0 ->
                 (CASE old_state = -1 -> DPadLeft
                    [] old_state = 1 -> DPadRight
                    [] OTHER -> NotImplemented)
            [] OTHER -> NotImplemented)
    [] OTHER ->
         (CASE value = -1 -> DPadUp
            [] value = 1 -> DPadDown
            [] value = 0 ->
                 (CASE old_state = -1 -> DPadUp
                    [] old_state = 1 -> DPadDown
                    [] OTHER -> NotImplemented)
            [] OTHER -> NotImplemented)

\* Variant: the old hat state is ignored, a value of 0 has no arm.
hat_capability_stateless(axis, value, old_state) ==
  CASE axis = ABS_HAT0X ->
         (CASE value = -1 -> DPadLeft
            [] value = 1 -> DPadRight
            [] OTHER -> NotImplemented)
    [] axis = ABS_HAT0Y ->
         (CASE value = -1 -> DPadUp
            [] value = 1 -> DPadDown
            [] OTHER -> NotImplemented)
    [] OTHER -> NotImplemented

\* The match on the axis, the value and the old hat state.
hat_capability(axis, value, old_state) ==
  CASE axis = ABS_HAT0X ->
         (CASE value = -1 -> DPadLeft
            [] value = 1 -> DPadRight
            [] value = 0 ->
                 (CASE old_state = -1 -> DPadLeft
                    [] old_state = 1 -> DPadRight
                    [] OTHER -> NotImplemented)
            [] OTHER -> NotImplemented)
    [] axis = ABS_HAT0Y ->
         (CASE value = -1 -> DPadUp
            [] value = 1 -> DPadDown
            [] value = 0 ->
                 (CASE old_state = -1 -> DPadUp
                    [] old_state = 1 -> DPadDown
                    [] OTHER -> NotImplemented)
            [] OTHER -> NotImplemented)
    [] OTHER -> NotImplemented

\* Variant: without a hat state the reading is not classified at all.
raw_capability_no_fallback(ev, hat_state) ==
  IF hat_state # None
    THEN hat_capability(ev.code, ev.value, Unwrap(hat_state))
    ELSE NotImplemented

\* let capability = if let Some(old_state) = hat_state { .. } else { .. }
raw_capability(ev, hat_state) ==
  IF hat_state # None
    THEN hat_capability(ev.code, ev.value, Unwrap(hat_state))
    ELSE Evdev_as_capability(ev)

\* Variant: a hat-decoded event is marked as translated from the reading's
\* own classification.
from_evdev_raw_marks_source(ev, hat_state) ==
  [capability |-> raw_capability(ev, hat_state),
   value |-> Evdev_get_value(ev),
   source_capability |->
     IF hat_state # None THEN Some(Evdev_as_capability(ev)) ELSE None]

from_evdev_raw(ev, hat_state) ==
  [capability |-> raw_capability(ev, hat_state),
   value |-> Evdev_get_value(ev),
   source_capability |-> None]

\* impl From<EvdevEvent> for NativeEvent
from(item) ==
  [capability |-> Evdev_as_capability(item),
   value |-> Evdev_get_value(item),
   source_capability |-> None]

\* ------------------------------------------------------------------ state
NoArgs ==
  [capability |-> None, source_capability |-> None, value |-> None,
   event |-> None, hat_state |-> None]

\* The event exactly as its constructor returned it.
Constructed(e) == e

CallerIdle ==
  /\ tracker = [a \in HatAxes |-> None]
  /\ prev = [a \in HatAxes |-> None]
  /\ pc = "idle"

Init ==
  /\ \E c \in Capability, v \in InputValue :
       /\ event = new(c, v)
       /\ args = [NoArgs EXCEPT !.capability = Some(c), !.value = Some(v)]
       /\ ctor = Constructed(new(c, v))
  /\ op = "new"
  /\ CallerIdle

\* ---------------------------------------------------------------- actions
New ==
  \E c \in Capability, v \in InputValue :
    /\ event' = new(c, v)
    /\ op' = "new"
    /\ args' = [NoArgs EXCEPT !.capability = Some(c), !.value = Some(v)]
    /\ ctor' = Constructed(event')
    /\ UNCHANGED <<tracker, prev, pc>>

NewTranslated ==
  \E s \in Capability, c \in Capability, v \in InputValue :
    /\ event' = new_translated(s, c, v)
    /\ op' = "new_translated"
    /\ args' = [NoArgs EXCEPT !.source_capability = Some(s),
                              !.capability = Some(c), !.value = Some(v)]
    /\ ctor' = Constructed(event')
    /\ UNCHANGED <<tracker, prev, pc>>

SetSourceCapability ==
  \E cap \in Capability :
    /\ event' = set_source_capability(event, cap)
    /\ op' = "set_source_capability"
    /\ args' = [NoArgs EXCEPT !.capability = Some(cap)]
    /\ UNCHANGED <<ctor, tracker, prev, pc>>

FromEvdevRaw ==
  \E ev \in EvdevEvent, hat_state \in HatStates :
    /\ event' = from_evdev_raw(ev, hat_state)
    /\ op' = "from_evdev_raw"
    /\ args' = [NoArgs EXCEPT !.event = Some(ev), !.hat_state = hat_state]
    /\ ctor' = Constructed(event')
    /\ UNCHANGED <<tracker, prev, pc>>

From ==
  \E item \in EvdevEvent :
    /\ event' = from(item)
    /\ op' = "from"
    /\ args' = [NoArgs EXCEPT !.event = Some(item)]
    /\ ctor' = Constructed(event')
    /\ UNCHANGED <<tracker, prev, pc>>

Next ==
  \/ New
  \/ NewTranslated
  \/ SetSourceCapability
  \/ FromEvdevRaw
  \/ From

Spec == Init /\ [][Next]_vars

\* --------------------------------------------------- the caller's tracker
\* The owner of the hat-state tracker translates one reading of a hat axis
\* with the tracker's entry for that axis, then stores the reading's raw
\* value in the tracker.
ReadHat ==
  \E ev \in EvdevEvent :
    /\ pc = "idle"
    /\ ev.code \in HatAxes
    /\ event' = from_evdev_raw(ev, tracker[ev.code])
    /\ op' = "from_evdev_raw"
    /\ args' = [NoArgs EXCEPT !.event = Some(ev),
                              !.hat_state = tracker[ev.code]]
    /\ ctor' = Constructed(event')
    /\ pc' = "update"
    /\ UNCHANGED <<tracker, prev>>

UpdateTracker ==
  /\ pc = "update"
  /\ LET ev == Unwrap(args.event) IN
       /\ tracker' = [tracker EXCEPT ![ev.code] = Some(ev.value)]
       /\ prev' = [prev EXCEPT ![ev.code] =
                     Some([value |-> ev.value, hat_state |-> args.hat_state,
                           capability |-> as_capability(event)])]
  /\ pc' = "idle"
  /\ UNCHANGED <<event, op, args, ctor>>

NextTracker ==
  \/ ReadHat
  \/ UpdateTracker

SpecTracker == Init /\ [][NextTracker]_vars

\* ------------------------------------------------------------ shorthands
Reading == Unwrap(args.event)
Translated == op = "from_evdev_raw"
HatSupplied == args.hat_state # None
OnHat(axis) == Translated /\ Reading.code = axis

\* ------------------------------------------------------------------- C1
\* C1 as stated: on ABS_HAT0X a raw value of -1 yields DPadLeft and +1
\* yields DPadRight, on ABS_HAT0Y -1 yields DPadUp and +1 yields DPadDown,
\* for every previous hat state including None.
C1_AsStated ==
  Translated =>
    /\ (Reading.code = ABS_HAT0X /\ Reading.value = -1
          => as_capability(event) = DPadLeft)
    /\ (Reading.code = ABS_HAT0X /\ Reading.value = 1
          => as_capability(event) = DPadRight)
    /\ (Reading.code = ABS_HAT0Y /\ Reading.value = -1
          => as_capability(event) = DPadUp)
    /\ (Reading.code = ABS_HAT0Y /\ Reading.value = 1
          => as_capability(event) = DPadDown)

\* C1 amended: the press decoding holds for every supplied previous hat
\* state Some(s); when no previous state is supplied (None) the capability
\* is the reading's own self-classification.
C1_PressDecoding ==
  Translated =>
    /\ (HatSupplied => C1_AsStated)
    /\ (~HatSupplied => as_capability(event) = Evdev_as_capability(Reading))

C1_Witness ==
  /\ OnHat(ABS_HAT0Y)
  /\ Reading.value = 1
  /\ args.hat_state = Some(-1)
  /\ as_capability(event) = DPadDown

C3_AsStated ==
  Translated /\ Reading.code \in HatAxes /\ Reading.value = 0
    /\ (args.hat_state = Some(0) \/ args.hat_state = None)
    => as_capability(event) = NotImplemented

\* C3 amended: a raw value of 0 on a hat axis whose supplied previous state
\* is 0 yields Capability::NotImplemented, never a direction button.
C3_NeutralAfterNeutral ==
  Translated /\ Reading.code \in HatAxes /\ Reading.value = 0
    /\ args.hat_state = Some(0)
    => as_capability(event) = NotImplemented

C3_Witness ==
  /\ OnHat(ABS_HAT0Y)
  /\ Reading.value = 0
  /\ args.hat_state = Some(0)
  /\ Evdev_as_capability(Reading) = DPadUp
  /\ as_capability(event) = NotImplemented

\* ------------------------------------------------------------------- C4
\* C4 as stated: every raw value outside {-1, 0, 1} on a hat axis yields
\* Capability::NotImplemented, whatever the previous state, absent or not.
C4_AsStated ==
  Translated /\ Reading.code \in HatAxes /\ Reading.value \notin {-1, 0, 1}
    => as_capability(event) = NotImplemented

\* C4 amended: every raw value outside {-1, 0, 1} on a hat axis yields
\* Capability::NotImplemented for every supplied previous state Some(s).
C4_OutOfRange ==
  HatSupplied => C4_AsStated

C4_Witness ==
  /\ OnHat(ABS_HAT0X)
  /\ Reading.value = 2
  /\ args.hat_state = Some(1)
  /\ as_capability(event) = NotImplemented

\* ------------------------------------------------------------------- C5
\* C5 as stated: whenever the reading is not a hat axis, or hat_state is
\* None, from_evdev_raw produces exactly the event From<EvdevEvent>
\* produces, with the reading's own self-classification as capability.
C5_AsStated ==
  Translated /\ (Reading.code \notin HatAxes \/ args.hat_state = None)
    => /\ event = from(Reading)
       /\ as_capability(event) = Evdev_as_capability(Reading)

\* C5 amended: whenever hat_state is None, whatever the axis code,
\* from_evdev_raw produces exactly the event From<EvdevEvent> produces.
C5_PlainConversion ==
  Translated /\ args.hat_state = None
    => /\ event = from(Reading)
       /\ as_capability(event) = Evdev_as_capability(Reading)

C5_Witness ==
  /\ OnHat(ABS_HAT0X)
  /\ args.hat_state = None
  /\ Reading.value = -1
  /\ as_capability(event) = OtherCapability
  /\ event = from(Reading)

\* ------------------------------------------------------------------- C6
\* C6 as stated: a reading whose axis code is neither hat axis yields
\* Capability::NotImplemented for any previous state, supplied or absent.
C6_AsStated ==
  Translated /\ Reading.code \notin HatAxes
    => as_capability(event) = NotImplemented

\* C6 amended: a reading whose axis code is neither hat axis yields
\* Capability::NotImplemented for any supplied previous state Some(s).
C6_OtherAxis ==
  HatSupplied => C6_AsStated

C6_Witness ==
  /\ Translated
  /\ Reading.code \notin HatAxes
  /\ Reading.value = 1
  /\ HatSupplied
  /\ Evdev_as_capability(Reading) = OtherCapability
  /\ as_capability(event) = NotImplemented

\* ------------------------------------------------------------------- C7
\* C7: when the tracker held the raw value of the preceding reading of the
\* axis at each call, the horizontal readings [+1, 0] produce
\* [DPadRight, DPadRight], every 0 reading that immediately follows a -1
\* or +1 reading yields the capability of that reading, and the
\* translation step leaves the tracker as it was.
C7_Release ==
  pc = "update" =>
    \A p \in prev[Reading.code] :
      p.hat_state # None /\ args.hat_state = Some(p.value)
        /\ p.value \in {-1, 1} /\ Reading.value = 0
        => /\ as_capability(event) = p.capability
           /\ (Reading.code = ABS_HAT0X /\ p.value = 1
                 => p.capability = DPadRight
                    /\ as_capability(event) = DPadRight)

C7_TrackerOrder ==
  /\ []C7_Release
  /\ [][pc = "idle" /\ pc' = "update" => tracker' = tracker]_vars

C7_Witness ==
  /\ pc = "update"
  /\ Reading.code = ABS_HAT0X
  /\ Reading.value = 0
  /\ \E p \in prev[ABS_HAT0X] :
       p.value = 1 /\ p.hat_state # None /\ p.capability = DPadRight
  /\ args.hat_state = Some(1)
  /\ as_capability(event) = DPadRight

\* ------------------------------------------------------------------- C8
\* C8: set_source_capability(cap) makes is_translated() true and
\* get_source_capability() Some(cap), leaves as_capability() and
\* get_value() unchanged, and after any number of such calls capability
\* and value are still those given at construction.
C8_AfterSet ==
  op = "set_source_capability" =>
    /\ is_translated(event)
    /\ get_source_capability(event) = args.capability
    /\ as_capability(event) = as_capability(ctor)
    /\ get_value(event) = get_value(ctor)

C8_SetSourceFrame ==
  /\ []C8_AfterSet
  /\ [][op' = "set_source_capability"
          => /\ as_capability(event') = as_capability(event)
             /\ get_value(event') = get_value(event)]_vars

C8_Witness ==
  /\ op = "set_source_capability"
  /\ ~is_translated(ctor)
  /\ is_translated(event)
  /\ get_source_capability(event) = Some(DPadUp)
  /\ as_capability(event) = OtherCapability

\* ------------------------------------------------------------------- C9
\* C9: is_translated() is true iff get_source_capability() is present;
\* new(c, v) yields capability c, value v, not translated;
\* new_translated(source, dest, v) yields capability dest, translated, with
\* source capability Some(source); and no operation on an event makes a
\* translated event untranslated again.
C9_State ==
  /\ is_translated(event) <=> get_source_capability(event) # None
  /\ op = "new" =>
       /\ Some(as_capability(event)) = args.capability
       /\ Some(get_value(event)) = args.value
       /\ ~is_translated(event)
  /\ op = "new_translated" =>
       /\ Some(as_capability(event)) = args.capability
       /\ is_translated(event)
       /\ get_source_capability(event) = args.source_capability
       /\ args.source_capability # None

C9_TranslatedFlag ==
  /\ []C9_State
  /\ [][is_translated(event) /\ op' = "set_source_capability"
          => is_translated(event')]_vars

C9_Witness ==
  /\ op = "set_source_capability"
  /\ is_translated(ctor)
  /\ is_translated(event)
  /\ get_source_capability(event) # get_source_capability(ctor)

\* ------------------------------------------------------------------ C10
\* C10: every event produced from a raw reading, by from_evdev_raw or by
\* From<EvdevEvent>, has no source capability and carries the reading's
\* own value; the hat state never influences the value.
C10_RawEvent ==
  op \in {"from_evdev_raw", "from"} =>
    /\ ~is_translated(event)
    /\ get_source_capability(event) = None
    /\ get_value(event) = Evdev_get_value(Reading)

C10_Witness ==
  /\ OnHat(ABS_HAT0X)
  /\ Reading.value = 0
  /\ args.hat_state = Some(-1)
  /\ as_capability(event) = DPadLeft
  /\ ~is_translated(event)
  /\ get_value(event) = Evdev_get_value(Reading)

====
